---------------------------- MODULE Spec2Model ----------------------------
(***************************************************************************)
(* A model of tools/msgfmt.py: the PO parser (parse_po and its helpers      *)
(* _unescape, _parse_quoted, flush), the catalog assembly at the end of     *)
(* parse_po, and the MO serializer write_mo, driven by main.                *)
(*                                                                         *)
(* A Python str is a sequence of Unicode code points (integers); a bytes   *)
(* object is a sequence of integers in 0..255.  An Optional[str] is the    *)
(* empty sequence (None) or a one-element sequence holding the string.     *)
(* A Python dict is the sequence of its (key, value) pairs in insertion    *)
(* order.                                                                  *)
(***************************************************************************)
EXTENDS Integers, Sequences, FiniteSets, TLC

(***************************************************************************)
(* Bound of the model: the number of lines of the input file.              *)
(***************************************************************************)
MaxLines == 4

---------------------------------------------------------------------------
(* Python str helpers used by the parser.                                  *)

\* str.isspace() for one character: what str.strip()/lstrip() remove.
IsSpace(c) ==
    \/ c \in 9..13
    \/ c \in 28..32
    \/ c \in {133, 160, 5760, 8232, 8233, 8239, 8287, 12288}
    \/ c \in 8192..8202

RECURSIVE LStrip(_)
\* str.lstrip()
LStrip(s) ==
    IF s # <<>> /\ IsSpace(Head(s)) THEN LStrip(Tail(s)) ELSE s

RECURSIVE RStrip(_)
\* the right half of str.strip()
RStrip(s) ==
    IF s # <<>> /\ IsSpace(s[Len(s)]) THEN RStrip(SubSeq(s, 1, Len(s) - 1)) ELSE s

\* str.strip()
Strip(s) == RStrip(LStrip(s))

RECURSIVE RStripNewline(_)
\* raw_line.rstrip("\n")
RStripNewline(s) ==
    IF s # <<>> /\ s[Len(s)] = 10 THEN RStripNewline(SubSeq(s, 1, Len(s) - 1)) ELSE s

\* str.startswith(prefix)
StartsWith(s, prefix) ==
    /\ Len(s) >= Len(prefix)
    /\ SubSeq(s, 1, Len(prefix)) = prefix

\* str.endswith of a single character
EndsWithChar(s, c) == s # <<>> /\ s[Len(s)] = c

\* s[n:] for n >= 0
DropFirst(s, n) == SubSeq(s, n + 1, Len(s))

\* str.find(c): the 0-based index of the first occurrence of c, or -1
Find(s, c) ==
    IF \E i \in 1..Len(s) : s[i] = c
    THEN (CHOOSE i \in 1..Len(s) : s[i] = c /\ \A j \in 1..(i - 1) : s[j] # c) - 1
    ELSE -1

\* s[a:b] of Python for 0 <= a, and b either >= 0 or -1 (all but the last)
Slice(s, a, b) ==
    LET stop == IF b < 0 THEN Len(s) + b ELSE b
    IN  IF stop <= a THEN <<>> ELSE SubSeq(s, a + 1, IF stop > Len(s) THEN Len(s) ELSE stop)

RECURSIVE SplitFrom(_, _, _)
\* str.split(sep) for a one-character separator: cur is the piece being read
SplitFrom(s, sep, cur) ==
    IF s = <<>> THEN <<cur>>
    ELSE IF Head(s) = sep THEN <<cur>> \o SplitFrom(Tail(s), sep, <<>>)
    ELSE SplitFrom(Tail(s), sep, Append(cur, Head(s)))

Split(s, sep) == SplitFrom(s, sep, <<>>)

---------------------------------------------------------------------------
(* _ESCAPE_RE and _unescape                                                *)

IsOctDigit(c) == c \in 48..55

IsHexDigit(c) == c \in 48..57 \/ c \in 65..70 \/ c \in 97..102

HexValue(c) ==
    IF c \in 48..57 THEN c - 48
    ELSE IF c \in 65..70 THEN c - 55
    ELSE c - 87

\* Number of characters _ESCAPE_RE matches at position i of s (0: no match
\* there).  The alternatives are tried in the order of the pattern; the
\* octal alternative is greedy, one to three digits.
EscapeMatchLen(s, i) ==
    IF ~(i + 1 <= Len(s) /\ s[i] = 92) THEN 0
    ELSE LET c == s[i + 1]
         IN  IF c \in {110, 116, 114, 92, 34} THEN 2
             ELSE IF IsOctDigit(c) THEN
                 IF i + 2 <= Len(s) /\ IsOctDigit(s[i + 2]) THEN
                     IF i + 3 <= Len(s) /\ IsOctDigit(s[i + 3]) THEN 4 ELSE 3
                 ELSE 2
             ELSE IF /\ c = 120
                     /\ i + 3 <= Len(s)
                     /\ IsHexDigit(s[i + 2])
                     /\ IsHexDigit(s[i + 3]) THEN 4
             ELSE 0

RECURSIVE OctalValue(_)
\* int(escape, 8) for a string of octal digits
OctalValue(digits) ==
    IF digits = <<>> THEN 0
    ELSE 8 * OctalValue(SubSeq(digits, 1, Len(digits) - 1)) + (digits[Len(digits)] - 48)

\* repl: the character an escape (match.group(1), without the backslash) yields
repl(escape) ==
    IF escape = <<110>> THEN 10
    ELSE IF escape = <<116>> THEN 9
    ELSE IF escape = <<114>> THEN 13
    ELSE IF escape = <<92>> THEN 92
    ELSE IF escape = <<34>> THEN 34
    ELSE IF Head(escape) = 120 THEN 16 * HexValue(escape[2]) + HexValue(escape[3])
    ELSE OctalValue(escape)

RECURSIVE SubFrom(_, _)
\* _ESCAPE_RE.sub(repl, value) from position i on: leftmost match first,
\* matches do not overlap, the replacement text is not scanned again
SubFrom(value, i) ==
    IF i > Len(value) THEN <<>>
    ELSE LET n == EscapeMatchLen(value, i)
         IN  IF n = 0 THEN <<value[i]>> \o SubFrom(value, i + 1)
             ELSE <<repl(SubSeq(value, i + 1, i + n - 1))>> \o SubFrom(value, i + n)

\* Faulty variant of unescape: the result of the pass is scanned once more.
unescape_rescanning(value) == SubFrom(SubFrom(value, 1), 1)

unescape(value) == SubFrom(value, 1)

---------------------------------------------------------------------------
(* A call that may raise ValueError returns [raised, value].               *)

Raise == [raised |-> TRUE, value |-> <<>>]

Return(v) == [raised |-> FALSE, value |-> <<v>>]

\* Faulty variant of parse_quoted: only the opening quote is required.
parse_quoted_unclosed(rest) ==
    LET r == Strip(rest)
    IN  IF ~StartsWith(r, <<34>>) THEN Raise
        ELSE Return(unescape(Slice(r, 1, -1)))

\* _parse_quoted
parse_quoted(rest) ==
    LET r == Strip(rest)
    IN  IF ~(StartsWith(r, <<34>>) /\ EndsWithChar(r, 34)) THEN Raise
        ELSE Return(unescape(Slice(r, 1, -1)))

\* The value of a decimal digit character accepted by int(), -1 for any other
\* character (ASCII, Arabic-Indic and fullwidth digits; the other Unicode
\* decimal digit blocks behave likewise).
DigitValue(c) ==
    IF c \in 48..57 THEN c - 48
    ELSE IF c \in 1632..1641 THEN c - 1632
    ELSE IF c \in 65296..65305 THEN c - 65296
    ELSE -1

RECURSIVE DigitsValue(_, _)
\* the digits of int(): a digit, then digits each optionally preceded by one
\* underscore; acc is the value read so far; -1 when the text is not a number
DigitsValue(s, acc) ==
    IF s = <<>> THEN acc
    ELSE IF DigitValue(Head(s)) >= 0 THEN DigitsValue(Tail(s), 10 * acc + DigitValue(Head(s)))
    ELSE IF Head(s) = 95 /\ Len(s) >= 2 /\ DigitValue(s[2]) >= 0 THEN
        DigitsValue(Tail(Tail(s)), 10 * acc + DigitValue(s[2]))
    ELSE -1

\* int(text): surrounding whitespace is ignored, one sign is allowed
int(text) ==
    LET t == Strip(text)
        signed == t # <<>> /\ Head(t) \in {43, 45}
        body == IF signed THEN Tail(t) ELSE t
        v == IF body = <<>> \/ DigitValue(Head(body)) < 0 THEN -1
             ELSE DigitsValue(Tail(body), DigitValue(Head(body)))
    IN  IF v < 0 THEN Raise
        ELSE Return(IF signed /\ Head(t) = 45 THEN 0 - v ELSE v)

---------------------------------------------------------------------------
(* dict: the sequence of (key, value) pairs in insertion order             *)

DictKeys(d) == {d[i][1] : i \in 1..Len(d)}

DictHas(d, k) == \E i \in 1..Len(d) : d[i][1] = k

\* d.get(k, default)
DictGet(d, k, default) ==
    IF DictHas(d, k) THEN d[CHOOSE i \in 1..Len(d) : d[i][1] = k][2] ELSE default

\* Faulty variant of DictSet: a key already present keeps its first value.
DictSetKeepingFirst(d, k, v) ==
    IF DictHas(d, k) THEN d ELSE Append(d, <<k, v>>)

\* Faulty variant of DictSet: a list of pairs that never replaces.
DictSetAppending(d, k, v) == Append(d, <<k, v>>)

\* d[k] = v
DictSet(d, k, v) ==
    IF DictHas(d, k)
    THEN [i \in 1..Len(d) |-> IF d[i][1] = k THEN <<k, v>> ELSE d[i]]
    ELSE Append(d, <<k, v>>)

\* Faulty variant of DictSetDefault: the default is never stored.
DictSetDefaultDropped(d, k, v) == d

\* d.setdefault(k, v)
DictSetDefault(d, k, v) == IF DictHas(d, k) THEN d ELSE Append(d, <<k, v>>)

---------------------------------------------------------------------------
(* parse_po: the line loop                                                 *)

VARIABLES
    alphabet,      \* the raw lines the input file is made of
    consumed,      \* the raw lines read from the file so far
    pc,            \* "parse", "assemble", "write_mo", "done" or "error"
    msgctxt,       \* Optional[str]
    msgid,         \* Optional[str]
    msgid_plural,  \* Optional[str]
    msgstr,        \* dict[int, str]
    flags,         \* set[str]
    active,        \* None or (kind, index)
    messages,      \* the list of records flush appended
    idx,           \* the number of records the assembly loop has taken
    key,           \* the assembly loop's key (unbound: None)
    value,         \* the assembly loop's value (unbound: None)
    catalog,       \* dict[str, str]
    out            \* the bytes written to out_file

vars == <<alphabet, consumed, pc, msgctxt, msgid, msgid_plural, msgstr, flags,
          active, messages, idx, key, value, catalog, out>>

None == <<>>

Some(v) == <<v>>

\* x or "" for an Optional[str]
OrEmpty(opt) == IF opt = None \/ opt = Some(<<>>) THEN <<>> ELSE opt[1]

NoActive == [kind |-> "None", index |-> None]

Active(kind, index) == [kind |-> kind, index |-> index]

\* The text of the directives and of the flag the assembly looks for.
KwFlags == <<35, 44>>                \* #,
KwComment == <<35>>                  \* #
KwMsgctxt == <<109, 115, 103, 99, 116, 120, 116>>
KwMsgidPlural == <<109, 115, 103, 105, 100, 95, 112, 108, 117, 114, 97, 108>>
KwMsgid == <<109, 115, 103, 105, 100>>
KwMsgstrIndexed == <<109, 115, 103, 115, 116, 114, 91>>     \* msgstr[
KwMsgstr == <<109, 115, 103, 115, 116, 114>>
Fuzzy == <<102, 117, 122, 122, 121>>

\* The parser's locals as one record.
Locals ==
    [msgctxt |-> msgctxt, msgid |-> msgid, msgid_plural |-> msgid_plural,
     msgstr |-> msgstr, flags |-> flags, active |-> active, messages |-> messages]

InitLocals ==
    [msgctxt |-> None, msgid |-> None, msgid_plural |-> None,
     msgstr |-> <<>>, flags |-> {}, active |-> NoActive, messages |-> <<>>]

\* Faulty variant of flush: without a msgid it returns at once and resets
\* nothing.
flush_without_reset(st) ==
    IF st.msgid = None THEN st
    ELSE [msgctxt |-> None, msgid |-> None, msgid_plural |-> None,
          msgstr |-> <<>>, flags |-> {}, active |-> NoActive,
          messages |-> Append(st.messages,
                              [msgctxt |-> st.msgctxt, msgid |-> st.msgid[1],
                               msgid_plural |-> st.msgid_plural,
                               msgstr |-> st.msgstr, flags |-> st.flags])]

\* Faulty variant of flush: the active target survives the reset.
flush_keeping_active(st) ==
    LET appended ==
            IF st.msgid = None THEN st.messages
            ELSE Append(st.messages,
                        [msgctxt |-> st.msgctxt, msgid |-> st.msgid[1],
                         msgid_plural |-> st.msgid_plural,
                         msgstr |-> st.msgstr, flags |-> st.flags])
    IN  [msgctxt |-> None, msgid |-> None, msgid_plural |-> None,
         msgstr |-> <<>>, flags |-> {}, active |-> st.active, messages |-> appended]

\* flush(): a record is appended only when msgid is set; every field and the
\* active target are reset either way
flush(st) ==
    LET appended ==
            IF st.msgid = None THEN st.messages
            ELSE Append(st.messages,
                        [msgctxt |-> st.msgctxt, msgid |-> st.msgid[1],
                         msgid_plural |-> st.msgid_plural,
                         msgstr |-> st.msgstr, flags |-> st.flags])
    IN  [msgctxt |-> None, msgid |-> None, msgid_plural |-> None,
         msgstr |-> <<>>, flags |-> {}, active |-> NoActive, messages |-> appended]

\* the flags a "#," line adds: the non-empty trimmed pieces between commas
LineFlags(line) ==
    LET pieces == Split(DropFirst(line, 2), 44)
    IN  {Strip(pieces[i]) : i \in 1..Len(pieces)} \ {<<>>}

Continue(st) == [raised |-> FALSE, st |-> st]

Abort(st) == [raised |-> TRUE, st |-> st]

\* Faulty variant of SetField: a msgid directive met while a msgid is already
\* set closes the record in progress and starts a new one.
SetFieldStartingRecord(st, q, field, kind) ==
    IF q.raised THEN Abort(st)
    ELSE LET from == IF field = "msgid" /\ st.msgid # None THEN flush(st) ELSE st
         IN  Continue([from EXCEPT ![field] = Some(q.value[1]),
                                   !.active = Active(kind, None)])

\* A directive line "<keyword> <quoted>": the field is replaced.
SetField(st, q, field, kind) ==
    IF q.raised THEN Abort(st)
    ELSE Continue([st EXCEPT ![field] = Some(q.value[1]),
                             !.active = Active(kind, None)])

\* Faulty variant of SetMsgstr: the bracketed index is parsed but the text is
\* stored as the singular translation, at index 0.
SetMsgstrSingular(st, i, q) ==
    IF i.raised \/ q.raised THEN Abort(st)
    ELSE Continue([st EXCEPT !.msgstr = DictSet(@, 0, q.value[1]),
                             !.active = Active("msgstr", Some(0))])

\* msgstr[index] = <quoted>, for "msgstr[n]" and "msgstr"
SetMsgstr(st, i, q) ==
    IF i.raised \/ q.raised THEN Abort(st)
    ELSE Continue([st EXCEPT !.msgstr = DictSet(@, i.value[1], q.value[1]),
                             !.active = Active("msgstr", Some(i.value[1]))])

\* Faulty variant of AppendActive: the active target is tested before the
\* literal is looked at, so a malformed literal with no target is passed over.
AppendActiveTargetFirst(st, q) ==
    IF st.active = NoActive THEN Continue(st)
    ELSE IF q.raised THEN Abort(st)
    ELSE IF st.active.kind = "msgstr" THEN
        LET index == st.active.index[1]
        IN  Continue([st EXCEPT !.msgstr =
                         DictSet(@, index, DictGet(@, index, <<>>) \o q.value[1])])
    ELSE Continue([st EXCEPT ![st.active.kind] = Some(OrEmpty(@) \o q.value[1])])

\* Faulty variant of AppendActive: the decoded text replaces the field.
AppendActiveReplacing(st, q) ==
    IF q.raised THEN Abort(st)
    ELSE IF st.active = NoActive THEN Continue(st)
    ELSE IF st.active.kind = "msgstr" THEN
        Continue([st EXCEPT !.msgstr = DictSet(@, st.active.index[1], q.value[1])])
    ELSE Continue([st EXCEPT ![st.active.kind] = Some(q.value[1])])

\* A continuation line: the decoded text is appended to the active field.
AppendActive(st, q) ==
    IF q.raised THEN Abort(st)
    ELSE IF st.active = NoActive THEN Continue(st)
    ELSE IF st.active.kind = "msgctxt" THEN
        Continue([st EXCEPT !.msgctxt = Some(OrEmpty(@) \o q.value[1])])
    ELSE IF st.active.kind = "msgid" THEN
        Continue([st EXCEPT !.msgid = Some(OrEmpty(@) \o q.value[1])])
    ELSE IF st.active.kind = "msgid_plural" THEN
        Continue([st EXCEPT !.msgid_plural = Some(OrEmpty(@) \o q.value[1])])
    ELSE IF st.active.kind = "msgstr" THEN
        LET index == st.active.index[1]
        IN  Continue([st EXCEPT !.msgstr =
                         DictSet(@, index, DictGet(@, index, <<>>) \o q.value[1])])
    ELSE Continue(st)

\* The if/continue chain of the loop body on a line whose terminator is
\* already removed: the first rule that matches decides; a line no rule
\* matches is passed over.
Dispatch(st, line) ==
        IF Strip(line) = <<>> THEN Continue(flush(st))
        ELSE IF StartsWith(line, KwFlags) THEN
            Continue([st EXCEPT !.flags = @ \cup LineFlags(line)])
        ELSE IF StartsWith(line, KwComment) THEN Continue(st)
        ELSE IF StartsWith(line, KwMsgctxt) THEN
            SetField(st, parse_quoted(DropFirst(line, Len(KwMsgctxt))), "msgctxt", "msgctxt")
        ELSE IF StartsWith(line, KwMsgidPlural) THEN
            SetField(st, parse_quoted(DropFirst(line, Len(KwMsgidPlural))),
                     "msgid_plural", "msgid_plural")
        ELSE IF StartsWith(line, KwMsgid) THEN
            SetField(st, parse_quoted(DropFirst(line, Len(KwMsgid))), "msgid", "msgid")
        ELSE IF StartsWith(line, KwMsgstrIndexed) THEN
            LET close == Find(line, 93)
            IN  SetMsgstr(st, int(Slice(line, Len(KwMsgstrIndexed), close)),
                          parse_quoted(DropFirst(line, close + 1)))
        ELSE IF StartsWith(line, KwMsgstr) THEN
            SetMsgstr(st, Return(0), parse_quoted(DropFirst(line, Len(KwMsgstr))))
        ELSE IF StartsWith(LStrip(line), <<34>>) THEN
            AppendActive(st, parse_quoted(line))
        ELSE Continue(st)

\* Faulty variant of ProcessLine: leading blanks are removed as well, so an
\* indented directive is honoured.
ProcessLineIndentTolerant(st, raw_line) ==
    Dispatch(st, LStrip(RStripNewline(raw_line)))

\* One iteration of "for raw_line in file": only the trailing line feed is
\* removed, then the chain runs.
ProcessLine(st, raw_line) ==
    Dispatch(st, RStripNewline(raw_line))

---------------------------------------------------------------------------
(* parse_po: the assembly of the catalog                                   *)

\* Faulty variant of is_fuzzy: the record is skipped only when "fuzzy" is
\* its one flag.
is_fuzzy_only(fl) == fl = {Fuzzy}

\* "fuzzy" in flags
is_fuzzy(fl) == Fuzzy \in fl

\* max(msgstrs.keys(), default=0)
MaxIndex(msgstrs) ==
    IF msgstrs = <<>> THEN 0
    ELSE CHOOSE m \in DictKeys(msgstrs) : \A k \in DictKeys(msgstrs) : k <= m

RECURSIVE Join(_, _)
\* sep.join(parts)
Join(parts, sep) ==
    IF parts = <<>> THEN <<>>
    ELSE IF Len(parts) = 1 THEN parts[1]
    ELSE parts[1] \o sep \o Join(Tail(parts), sep)

\* [msgstrs.get(i, "") for i in range(n)]
Translations(msgstrs, n) ==
    IF n <= 0 THEN <<>> ELSE [i \in 1..n |-> DictGet(msgstrs, i - 1, <<>>)]

\* key before the context is applied
key_base(rec) ==
    IF rec.msgid_plural # None THEN rec.msgid \o <<0>> \o rec.msgid_plural[1]
    ELSE rec.msgid

\* the value of a record
entry_value(rec) ==
    IF rec.msgid_plural # None
    THEN Join(Translations(rec.msgstr, MaxIndex(rec.msgstr) + 1), <<0>>)
    ELSE DictGet(rec.msgstr, 0, <<>>)

\* Faulty variant of entry_key: "if msgctxt is not None" for "if msgctxt".
entry_key_any_context(rec) ==
    IF rec.msgctxt # None
    THEN rec.msgctxt[1] \o <<4>> \o key_base(rec)
    ELSE key_base(rec)

\* "if msgctxt: key = msgctxt + "\x04" + key"
entry_key(rec) ==
    IF rec.msgctxt # None /\ rec.msgctxt[1] # <<>>
    THEN rec.msgctxt[1] \o <<4>> \o key_base(rec)
    ELSE key_base(rec)

---------------------------------------------------------------------------
(* write_mo                                                                *)

\* a < b for two str (by code point) or two bytes (by byte): both compare
\* element by element, a proper prefix being the smaller
RECURSIVE SeqLess(_, _)
SeqLess(a, b) ==
    IF b = <<>> THEN FALSE
    ELSE IF a = <<>> THEN TRUE
    ELSE IF Head(a) # Head(b) THEN Head(a) < Head(b)
    ELSE SeqLess(Tail(a), Tail(b))

\* Faulty variant of sort_key: the entries are ordered by their values.
sort_key_value(kv) == kv[2]

\* the key sorted() compares entries by: kv[0]
sort_key(kv) == kv[1]

RECURSIVE InsertSorted(_, _)
\* kv placed after every entry of the sorted list that is not greater
InsertSorted(sorted, kv) ==
    IF sorted = <<>> THEN <<kv>>
    ELSE IF SeqLess(sort_key(kv), sort_key(Head(sorted))) THEN <<kv>> \o sorted
    ELSE <<Head(sorted)>> \o InsertSorted(Tail(sorted), kv)

RECURSIVE Sorted(_)
\* sorted(catalog.items(), key=lambda kv: kv[0]), a stable sort
Sorted(items) ==
    IF items = <<>> THEN <<>>
    ELSE InsertSorted(Sorted(SubSeq(items, 1, Len(items) - 1)), items[Len(items)])

\* The UTF-8 bytes of one code point.  (No str of this program holds a
\* surrogate: the file is decoded with errors="replace" and an escape yields
\* at most chr(511).)
EncodeChar(c) ==
    IF c < 128 THEN <<c>>
    ELSE IF c < 2048 THEN <<192 + (c \div 64), 128 + (c % 64)>>
    ELSE IF c < 65536 THEN
        <<224 + (c \div 4096), 128 + ((c \div 64) % 64), 128 + (c % 64)>>
    ELSE <<240 + (c \div 262144), 128 + ((c \div 4096) % 64),
           128 + ((c \div 64) % 64), 128 + (c % 64)>>

RECURSIVE encode(_)
\* str.encode("utf-8")
encode(s) == IF s = <<>> THEN <<>> ELSE EncodeChar(Head(s)) \o encode(Tail(s))

\* struct.pack of one 32-bit little-endian field
Pack32(n) ==
    <<n % 256, (n \div 256) % 256, (n \div 65536) % 256, (n \div 16777216) % 256>>

header_size == 7 * 4

\* 0x950412DE as its two 16-bit halves (0x9504, 0x12DE): the number itself
\* is beyond the integers of the model checker
magic == <<38148, 4830>>

\* struct.pack("<I", magic)
PackMagic ==
    <<magic[2] % 256, magic[2] \div 256, magic[1] % 256, magic[1] \div 256>>

RECURSIVE PoolTableUnterminated(_, _)
\* Faulty variant of PoolTable: the offsets leave the terminators out.
PoolTableUnterminated(strings, at) ==
    IF strings = <<>> THEN <<>>
    ELSE <<<<Len(Head(strings)), at>>>>
         \o PoolTableUnterminated(Tail(strings), at + Len(Head(strings)))

RECURSIVE PoolTable(_, _)
\* The loop over ids (or strs): the (length, offset) pairs, offset being
\* where the string starts when the pool so far ends at position at.
PoolTable(strings, at) ==
    IF strings = <<>> THEN <<>>
    ELSE <<<<Len(Head(strings)), at>>>>
         \o PoolTable(Tail(strings), at + Len(Head(strings)) + 1)

RECURSIVE PoolBytesUnterminated(_)
\* Faulty variant of PoolBytes: no zero byte follows a string.
PoolBytesUnterminated(strings) ==
    IF strings = <<>> THEN <<>>
    ELSE Head(strings) \o PoolBytesUnterminated(Tail(strings))

RECURSIVE PoolBytes(_)
\* pool.extend(value); pool.append(0) for every string
PoolBytes(strings) ==
    IF strings = <<>> THEN <<>>
    ELSE Head(strings) \o <<0>> \o PoolBytes(Tail(strings))

RECURSIVE PackTable(_)
\* struct.pack("<II", length, offset) for every pair
PackTable(table) ==
    IF table = <<>> THEN <<>>
    ELSE Pack32(Head(table)[1]) \o Pack32(Head(table)[2]) \o PackTable(Tail(table))

\* the bytes write_mo writes for a catalog
write_mo(cat) ==
    LET entries == Sorted(cat)
        ids == [i \in 1..Len(entries) |-> encode(entries[i][1])]
        strs == [i \in 1..Len(entries) |-> encode(entries[i][2])]
        count == Len(entries)
        table_size == count * 8
        originals_offset == header_size
        translations_offset == originals_offset + table_size
        string_offset == translations_offset + table_size
        offsets_ids == PoolTable(ids, string_offset)
        offsets_strs == PoolTable(strs, string_offset + Len(PoolBytes(ids)))
        pool == PoolBytes(ids) \o PoolBytes(strs)
    IN  PackMagic \o Pack32(0) \o Pack32(count) \o Pack32(originals_offset)
        \o Pack32(translations_offset) \o Pack32(0) \o Pack32(0)
        \o PackTable(offsets_ids) \o PackTable(offsets_strs) \o pool

---------------------------------------------------------------------------
(* main: parse_po, then write_mo                                           *)

\* The state before the first line is read, for a file made of lines.
InitWith(lines) ==
    /\ alphabet = lines
    /\ consumed = <<>>
    /\ pc = "parse"
    /\ msgctxt = None
    /\ msgid = None
    /\ msgid_plural = None
    /\ msgstr = <<>>
    /\ flags = {}
    /\ active = NoActive
    /\ messages = <<>>
    /\ idx = 0
    /\ key = None
    /\ value = None
    /\ catalog = <<>>
    /\ out = <<>>

\* The loop takes the next line of the file.  A ValueError ends the run:
\* nothing the loop holds has changed, and main writes nothing.
ReadLine ==
    /\ pc = "parse"
    /\ Len(consumed) < MaxLines
    /\ \E raw_line \in alphabet :
          LET r == ProcessLine(Locals, raw_line)
          IN  /\ consumed' = Append(consumed, raw_line)
              /\ pc' = IF r.raised THEN "error" ELSE "parse"
              /\ msgctxt' = r.st.msgctxt
              /\ msgid' = r.st.msgid
              /\ msgid_plural' = r.st.msgid_plural
              /\ msgstr' = r.st.msgstr
              /\ flags' = r.st.flags
              /\ active' = r.st.active
              /\ messages' = r.st.messages
    /\ UNCHANGED <<alphabet, idx, key, value, catalog, out>>

\* The file is exhausted: the flush after the loop, then catalog = {}.
EndOfInput ==
    /\ pc = "parse"
    /\ LET st == flush(Locals)
       IN  /\ msgctxt' = st.msgctxt
           /\ msgid' = st.msgid
           /\ msgid_plural' = st.msgid_plural
           /\ msgstr' = st.msgstr
           /\ flags' = st.flags
           /\ active' = st.active
           /\ messages' = st.messages
    /\ catalog' = <<>>
    /\ pc' = "assemble"
    /\ UNCHANGED <<alphabet, consumed, idx, key, value, out>>

\* One iteration of "for msgctxt, msgid, msgid_plural, msgstrs, flags in
\* messages": the loop rebinds the parser's names to the record's fields.
AssembleRecord ==
    /\ pc = "assemble"
    /\ idx < Len(messages)
    /\ LET rec == messages[idx + 1]
       IN  /\ msgctxt' = rec.msgctxt
           /\ msgid' = Some(rec.msgid)
           /\ msgid_plural' = rec.msgid_plural
           /\ flags' = rec.flags
           /\ IF is_fuzzy(rec.flags)
              THEN UNCHANGED <<key, value, catalog>>
              ELSE /\ key' = Some(entry_key(rec))
                   /\ value' = Some(entry_value(rec))
                   /\ catalog' = DictSet(catalog, entry_key(rec), entry_value(rec))
    /\ idx' = idx + 1
    /\ UNCHANGED <<alphabet, consumed, pc, msgstr, active, messages, out>>

\* catalog.setdefault("", ""); return catalog
ReturnCatalog ==
    /\ pc = "assemble"
    /\ idx = Len(messages)
    /\ catalog' = DictSetDefault(catalog, <<>>, <<>>)
    /\ pc' = "write_mo"
    /\ UNCHANGED <<alphabet, consumed, msgctxt, msgid, msgid_plural, msgstr, flags,
                   active, messages, idx, key, value, out>>

\* write_mo(catalog, args.output)
WriteMo ==
    /\ pc = "write_mo"
    /\ out' = write_mo(catalog)
    /\ pc' = "done"
    /\ UNCHANGED <<alphabet, consumed, msgctxt, msgid, msgid_plural, msgstr, flags,
                   active, messages, idx, key, value, catalog>>

---------------------------------------------------------------------------
(* parse_po as a function of the whole file: the same steps, composed.     *)

RECURSIVE ReadAll(_, _)
\* the line loop over lines, from the locals st; a raise stops it
ReadAll(st, lines) ==
    IF lines = <<>> THEN Continue(st)
    ELSE LET r == ProcessLine(st, Head(lines))
         IN  IF r.raised THEN r ELSE ReadAll(r.st, Tail(lines))

RECURSIVE Assemble(_, _)
\* the assembly loop over records, from the catalog cat
Assemble(records, cat) ==
    IF records = <<>> THEN cat
    ELSE IF is_fuzzy(Head(records).flags) THEN Assemble(Tail(records), cat)
    ELSE Assemble(Tail(records),
                  DictSet(cat, entry_key(Head(records)), entry_value(Head(records))))

\* parse_po(path) for a file holding lines
parse_po(lines) ==
    LET r == ReadAll(InitLocals, lines)
    IN  IF r.raised THEN Raise
        ELSE Return(DictSetDefault(Assemble(flush(r.st).messages, <<>>), <<>>, <<>>))

Next ==
    \/ ReadLine
    \/ EndOfInput
    \/ AssembleRecord
    \/ ReturnCatalog
    \/ WriteMo


---------------------------------------------------------------------------
(* The input files: every file of at most MaxLines lines over an alphabet   *)
(* of raw lines (each with its line terminator, as the file yields it).     *)

\* \n
LnBlank ==
    <<10>>

\*   \r\n
LnBlankSpaces ==
    <<32, 32, 13, 10>>

\* # note\n
LnComment ==
    <<35, 32, 110, 111, 116, 101, 10>>

\* #, fuzzy\n
LnFuzzy ==
    <<35, 44, 32, 102, 117, 122, 122, 121, 10>>

\* #, c-format,fuzzy ,\n
LnFuzzyAmongFlags ==
    <<35, 44, 32, 99, 45, 102, 111, 114, 109, 97, 116, 44, 102, 117, 122,
    122, 121, 32, 44, 10>>

\* #, Fuzzy, fuzzy-x\n
LnNotFuzzy ==
    <<35, 44, 32, 70, 117, 122, 122, 121, 44, 32, 102, 117, 122, 122, 121,
    45, 120, 10>>

\* msgctxt "menu"\n
LnCtxtMenu ==
    <<109, 115, 103, 99, 116, 120, 116, 32, 34, 109, 101, 110, 117, 34,
    10>>

\* msgctxt ""\n
LnCtxtEmpty ==
    <<109, 115, 103, 99, 116, 120, 116, 32, 34, 34, 10>>

\* msgctxt menu"\n
LnCtxtBad ==
    <<109, 115, 103, 99, 116, 120, 116, 32, 109, 101, 110, 117, 34, 10>>

\* msgid ""\n
LnIdEmpty ==
    <<109, 115, 103, 105, 100, 32, 34, 34, 10>>

\* msgid "a"\n
LnIdA ==
    <<109, 115, 103, 105, 100, 32, 34, 97, 34, 10>>

\* msgid "Hello"\n
LnIdHello ==
    <<109, 115, 103, 105, 100, 32, 34, 72, 101, 108, 108, 111, 34, 10>>

\* msgid "Open"\r\n
LnIdOpen ==
    <<109, 115, 103, 105, 100, 32, 34, 79, 112, 101, 110, 34, 13, 10>>

\* msgid "apple"\n
LnIdApple ==
    <<109, 115, 103, 105, 100, 32, 34, 97, 112, 112, 108, 101, 34, 10>>

\* msgid Hello\n
LnIdBad ==
    <<109, 115, 103, 105, 100, 32, 72, 101, 108, 108, 111, 10>>

\* msgid "\xe9"\n
LnIdLatin ==
    <<109, 115, 103, 105, 100, 32, 34, 92, 120, 101, 57, 34, 10>>

\* msgid "U+20AC"\n
LnIdEuro ==
    <<109, 115, 103, 105, 100, 32, 34, 8364, 34, 10>>

\* msgid "U+FFFD"\n
LnIdReplacement ==
    <<109, 115, 103, 105, 100, 32, 34, 65533, 34, 10>>

\* msgid "U+10000"\n
LnIdAstral ==
    <<109, 115, 103, 105, 100, 32, 34, 65536, 34, 10>>

\* msgid "\177"\n
LnIdDel ==
    <<109, 115, 103, 105, 100, 32, 34, 92, 49, 55, 55, 34, 10>>

\* msgid_plural "apples"\n
LnPluralApples ==
    <<109, 115, 103, 105, 100, 95, 112, 108, 117, 114, 97, 108, 32, 34,
    97, 112, 112, 108, 101, 115, 34, 10>>

\* msgid_plural apples"\n
LnPluralBad ==
    <<109, 115, 103, 105, 100, 95, 112, 108, 117, 114, 97, 108, 32, 97, 112,
    112, 108, 101, 115, 34, 10>>

\* msgid_plural "b"\n
LnPluralB ==
    <<109, 115, 103, 105, 100, 95, 112, 108, 117, 114, 97, 108, 32, 34,
    98, 34, 10>>

\* msgstr "x"\n
LnStrX ==
    <<109, 115, 103, 115, 116, 114, 32, 34, 120, 34, 10>>

\* msgstr "y"\n
LnStrY ==
    <<109, 115, 103, 115, 116, 114, 32, 34, 121, 34, 10>>

\* msgstr "Bonjour"\n
LnStrBonjour ==
    <<109, 115, 103, 115, 116, 114, 32, 34, 66, 111, 110, 106, 111, 117,
    114, 34, 10>>

\* msgstr "Ouvrir"\n
LnStrOuvrir ==
    <<109, 115, 103, 115, 116, 114, 32, 34, 79, 117, 118, 114, 105, 114,
    34, 10>>

\* msgstr "U+00E9\n"\n
LnStrLatin ==
    <<109, 115, 103, 115, 116, 114, 32, 34, 233, 92, 110, 34, 10>>

\* msgstr "x\n
LnStrBad ==
    <<109, 115, 103, 115, 116, 114, 32, 34, 120, 10>>

\* msgstr[0] ""\n
LnStr0Empty ==
    <<109, 115, 103, 115, 116, 114, 91, 48, 93, 32, 34, 34, 10>>

\* msgstr[1] "pommes"\n
LnStr1Pommes ==
    <<109, 115, 103, 115, 116, 114, 91, 49, 93, 32, 34, 112, 111, 109,
    109, 101, 115, 34, 10>>

\* msgstr[2] "\0"\n
LnStr2Nul ==
    <<109, 115, 103, 115, 116, 114, 91, 50, 93, 32, 34, 92, 48, 34, 10>>

\* msgstr[-1] "x"\n
LnStrNegative ==
    <<109, 115, 103, 115, 116, 114, 91, 45, 49, 93, 32, 34, 120, 34, 10>>

\* msgstr[n] "x"\n
LnStrBadIndex ==
    <<109, 115, 103, 115, 116, 114, 91, 110, 93, 32, 34, 120, 34, 10>>

\* msgstr[0] x\n
LnStrIndexBadQuote ==
    <<109, 115, 103, 115, 116, 114, 91, 48, 93, 32, 120, 10>>

\* "Part1"\n
LnContPart1 ==
    <<34, 80, 97, 114, 116, 49, 34, 10>>

\*   "Part2"\n
LnContPart2 ==
    <<32, 32, 34, 80, 97, 114, 116, 50, 34, 10>>

\* "Part\n
LnContBad ==
    <<34, 80, 97, 114, 116, 10>>

\*   msgid "x"\n
LnIndented ==
    <<32, 32, 109, 115, 103, 105, 100, 32, 34, 120, 34, 10>>

\* domain "x"\n
LnUnknown ==
    <<100, 111, 109, 97, 105, 110, 32, 34, 120, 34, 10>>

\* MSGID "x"\n
LnUpper ==
    <<77, 83, 71, 73, 68, 32, 34, 120, 34, 10>>

\* Context, singular and plural records, the header record, a fuzzy flag.
CatalogLines ==
    {LnBlank, LnFuzzy, LnCtxtMenu, LnCtxtEmpty, LnIdEmpty, LnIdHello,
     LnPluralB, LnStrBonjour}

\* Flag lines of every shape around two msgids and two translations.
FuzzyLines ==
    {LnBlank, LnFuzzy, LnFuzzyAmongFlags, LnNotFuzzy, LnIdEmpty, LnIdA,
     LnStrX, LnStrY}

\* Well-formed and malformed lines of every directive.
ErrorLines ==
    {LnBlank, LnIdA, LnIdBad, LnCtxtBad, LnStrX, LnStrBad, LnStrIndexBadQuote,
     LnStrBadIndex, LnContPart1, LnContBad, LnPluralB, LnPluralBad}

\* Plural forms with indices present, absent, negative and malformed.
PluralLines ==
    {LnBlank, LnIdApple, LnPluralApples, LnStr0Empty, LnStr1Pommes, LnStr2Nul,
     LnStrNegative, LnStrBadIndex, LnStrX}

\* Every directive followed by continuation, comment and flag lines.
ContinuationLines ==
    {LnBlankSpaces, LnComment, LnFuzzy, LnCtxtMenu, LnIdEmpty, LnPluralB,
     LnStrX, LnStr1Pommes, LnContPart1, LnContPart2}

\* Keys and values of one to four UTF-8 bytes per character.
EncodingLines ==
    {LnBlank, LnIdA, LnIdLatin, LnIdEuro, LnIdReplacement, LnIdAstral, LnIdDel,
     LnIdEmpty, LnStrLatin, LnCtxtMenu}

\* Contexts present, empty and absent, before singular and plural records.
ContextLines ==
    {LnBlank, LnFuzzy, LnCtxtMenu, LnCtxtEmpty, LnIdOpen, LnPluralB, LnStrOuvrir,
     LnContPart1}

Init == InitWith(CatalogLines)

Spec == Init /\ [][Next]_vars

SpecFuzzy == InitWith(FuzzyLines) /\ [][Next]_vars

SpecError == InitWith(ErrorLines) /\ [][Next]_vars

SpecPlural == InitWith(PluralLines) /\ [][Next]_vars

SpecContinuation == InitWith(ContinuationLines) /\ [][Next]_vars

SpecEncoding == InitWith(EncodingLines) /\ [][Next]_vars

\* Blocks with and without a msgid, closed by an empty line, by a line of
\* blanks, or by the end of the file.
FlushLines ==
    {LnBlank, LnBlankSpaces, LnFuzzy, LnCtxtMenu, LnIdA, LnPluralB, LnStrX,
     LnStr1Pommes}

\* One line for every rule of the chain, among them the three whose prefix
\* a later rule would match too.
DispatchLines ==
    {LnBlank, LnComment, LnFuzzyAmongFlags, LnCtxtMenu, LnIdA, LnPluralB,
     LnStrX, LnStr0Empty, LnStr1Pommes}

\* Lines no rule matches (an indented directive, an unknown keyword, a
\* keyword in capitals) among lines that set fields and the active target.
SkipLines ==
    {LnBlank, LnIndented, LnUnknown, LnUpper, LnFuzzy, LnIdA, LnStrX,
     LnStr1Pommes, LnContPart1}

\* The characters the literals of SpecEscape are made of:
\* backslash, n, 7, 8, x, q and the double quote.
EscapeChars == {92, 110, 55, 56, 120, 113, 34}

\* The longest literal of SpecEscape, in characters between the quotes.
MaxText == 5

EscapeTexts == UNION {[1..k -> EscapeChars] : k \in 0..MaxText}

\* msgid "<text>"\n
LnIdOf(text) == KwMsgid \o <<32, 34>> \o text \o <<34, 10>>

SpecContext == InitWith(ContextLines) /\ [][Next]_vars

SpecFlush == InitWith(FlushLines) /\ [][Next]_vars

SpecDispatch == InitWith(DispatchLines) /\ [][Next]_vars

SpecSkip == InitWith(SkipLines) /\ [][Next]_vars

\* Every literal of up to MaxText characters over EscapeChars, as the file
\* of the one line "msgid <literal>".
InitEscape == \E text \in EscapeTexts : InitWith({LnIdOf(text)})

\* the line loop on a file of one line
ReadOnlyLine == consumed = <<>> /\ ReadLine

SpecEscape == InitEscape /\ [][ReadOnlyLine]_vars

---------------------------------------------------------------------------
(* What the claims speak of, stated from the data alone.                   *)

\* parse_po has returned its catalog
Returned == pc \in {"write_mo", "done"}

\* the record carries the flag "fuzzy"
CarriesFuzzy(rec) == \E f \in rec.flags : f = <<102, 117, 122, 122, 121>>

\* key-base and final key of a record, as the catalog format defines them
KeyBaseOf(rec) ==
    IF rec.msgid_plural = None THEN rec.msgid
    ELSE rec.msgid \o <<0>> \o rec.msgid_plural[1]

FinalKeyOf(rec) ==
    IF rec.msgctxt = None THEN KeyBaseOf(rec)
    ELSE IF Len(rec.msgctxt[1]) = 0 THEN KeyBaseOf(rec)
    ELSE rec.msgctxt[1] \o <<4>> \o KeyBaseOf(rec)

\* the positions in messages of the non-fuzzy records whose final key is k
Producers(k) ==
    {i \in 1..Len(messages) : ~CarriesFuzzy(messages[i]) /\ FinalKeyOf(messages[i]) = k}

Last(S) == CHOOSE i \in S : \A j \in S : j <= i

\* the value the catalog holds for key k
ValueAt(k) == catalog[CHOOSE i \in 1..Len(catalog) : catalog[i][1] = k][2]

UniqueKeys == \A i, j \in 1..Len(catalog) : i # j => catalog[i][1] # catalog[j][1]

---------------------------------------------------------------------------
\* C1 (as stated): the returned catalog holds the key "" and no key twice;
\* "" maps to "" exactly when no non-fuzzy record produced the final key "",
\* and otherwise to the value of the last such record.
C1_AsStated ==
    Returned =>
        /\ UniqueKeys
        /\ \E i \in 1..Len(catalog) : catalog[i][1] = <<>>
        /\ (ValueAt(<<>>) = <<>>) <=> (Producers(<<>>) = {})
        /\ Producers(<<>>) # {} =>
               ValueAt(<<>>) = DictGet(messages[Last(Producers(<<>>))].msgstr, 0, <<>>)

\* C1 (amended): the returned catalog holds the key "" and no key twice; ""
\* maps to "" when no non-fuzzy record produced the final key "", and
\* otherwise to the value of the last such record (which may itself be "").
C1_HeaderKey ==
    Returned =>
        /\ UniqueKeys
        /\ \E i \in 1..Len(catalog) : catalog[i][1] = <<>>
        /\ Producers(<<>>) = {} => ValueAt(<<>>) = <<>>
        /\ Producers(<<>>) # {} =>
               ValueAt(<<>>) = DictGet(messages[Last(Producers(<<>>))].msgstr, 0, <<>>)

\* Two header records were read, the first translated and the second not, and
\* a further key stands beside "".
C1_Witness ==
    /\ pc = "done"
    /\ \E i, j \in Producers(<<>>) :
          /\ i < j
          /\ DictGet(messages[i].msgstr, 0, <<>>) # <<>>
          /\ DictGet(messages[j].msgstr, 0, <<>>) = <<>>

---------------------------------------------------------------------------
(* Blocks of the input: the maximal runs of lines that are not blank.      *)

IsBlankLine(raw_line) == \A i \in 1..Len(raw_line) : IsSpace(raw_line[i])

\* a "#," line one of whose comma-separated pieces, trimmed, is "fuzzy"
IsFuzzyFlagLine(raw_line) ==
    /\ Len(raw_line) >= 2
    /\ raw_line[1] = 35
    /\ raw_line[2] = 44
    /\ LET pieces == Split(DropFirst(RStripNewline(raw_line), 2), 44)
       IN  \E i \in 1..Len(pieces) : Strip(pieces[i]) = <<102, 117, 122, 122, 121>>

\* lines i and j of the file lie in the same block
SameBlock(lines, i, j) ==
    \A k \in 1..Len(lines) :
        ((i <= k /\ k <= j) \/ (j <= k /\ k <= i)) => ~IsBlankLine(lines[k])

\* line i lies in a block that holds a fuzzy flag line
InFuzzyBlock(lines, i) ==
    \E j \in 1..Len(lines) : SameBlock(lines, i, j) /\ IsFuzzyFlagLine(lines[j])

RECURSIVE KeepFrom(_, _)
KeepFrom(lines, i) ==
    IF i > Len(lines) THEN <<>>
    ELSE IF InFuzzyBlock(lines, i) THEN KeepFrom(lines, i + 1)
    ELSE <<lines[i]>> \o KeepFrom(lines, i + 1)

\* the file with every fuzzy block taken out
WithoutFuzzyBlocks(lines) == KeepFrom(lines, 1)

\* C2: a record whose flags contain "fuzzy" never contributes to the catalog:
\* the catalog of a file is the catalog of the same file with every fuzzy
\* block removed, wherever the flag line sits in its block and whatever other
\* flags stand beside it; when every header record is fuzzy, "" maps to "".
C2_FuzzySkipped ==
    Returned =>
        /\ parse_po(WithoutFuzzyBlocks(consumed)) = Return(catalog)
        /\ (\A i \in 1..Len(messages) :
               FinalKeyOf(messages[i]) = <<>> => CarriesFuzzy(messages[i]))
           => ValueAt(<<>>) = <<>>

\* A record was read whose "fuzzy" flag, one of several, came after its
\* msgid, beside a record that is not fuzzy; its key is not in the catalog.
C2_Witness ==
    /\ pc = "done"
    /\ \E i \in 1..Len(messages) :
          /\ CarriesFuzzy(messages[i])
          /\ Cardinality(messages[i].flags) > 1
          /\ \A j \in 1..Len(catalog) : catalog[j][1] # FinalKeyOf(messages[i])
    /\ \E i \in 1..Len(messages) : ~CarriesFuzzy(messages[i])
    /\ \E i \in 2..Len(consumed) :
          IsFuzzyFlagLine(consumed[i]) /\ StartsWith(consumed[i - 1], KwMsgid)

---------------------------------------------------------------------------
(* Lines and their quoted literals.                                        *)

\* the line read last
LastLine == consumed[Len(consumed)]

\* a step of the line loop
ReadsLine == pc = "parse" /\ Len(consumed') = Len(consumed) + 1

\* The text a directive or continuation line must give as a quoted literal:
\* what follows the keyword (for msgstr[n], what follows the first "]"), the
\* whole line for a continuation; None for every other line.
LiteralOf(raw_line) ==
    LET line == RStripNewline(raw_line)
    IN  IF IsBlankLine(raw_line) \/ line[1] = 35 THEN None
        ELSE IF StartsWith(line, KwMsgctxt) THEN Some(DropFirst(line, 7))
        ELSE IF StartsWith(line, KwMsgidPlural) THEN Some(DropFirst(line, 12))
        ELSE IF StartsWith(line, KwMsgid) THEN Some(DropFirst(line, 5))
        ELSE IF StartsWith(line, KwMsgstrIndexed)
            THEN Some(DropFirst(line, Find(line, 93) + 1))
        ELSE IF StartsWith(line, KwMsgstr) THEN Some(DropFirst(line, 6))
        ELSE IF StartsWith(LStrip(line), <<34>>) THEN Some(line)
        ELSE None

\* the literal does not both start and end with a double quote
BadlyQuoted(text) ==
    LET t == Strip(text)
    IN  ~(t # <<>> /\ t[1] = 34 /\ t[Len(t)] = 34)

HasBadLiteral(raw_line) ==
    LiteralOf(raw_line) # None /\ BadlyQuoted(LiteralOf(raw_line)[1])

\* C3: fail-fast with no output.  A directive or continuation line whose
\* quoted literal does not both start and end with a double quote aborts the
\* run at that line: the locals are as they were, no step follows (no later
\* line is read, no catalog is returned, write_mo is not entered) and no byte
\* is written.  Conversely bytes are written only by write_mo, entered after
\* the last line was read and the catalog fully assembled.
C3_FailFast ==
    /\ [][ReadsLine /\ HasBadLiteral(consumed'[Len(consumed')])
            => /\ pc' = "error"
               /\ UNCHANGED <<msgctxt, msgid, msgid_plural, msgstr, flags, active,
                              messages, catalog, out>>]_vars
    /\ [][pc # "error"]_vars
    /\ [](pc = "error" => out = <<>> /\ catalog = <<>>)
    /\ [][out' # out
            => /\ pc = "write_mo"
               /\ idx = Len(messages)
               /\ \E i \in 1..Len(catalog) : catalog[i][1] = <<>>]_vars
    /\ [](out # <<>> => pc = "done")

\* The run was aborted by a badly quoted line after a record had been
\* completed.
C3_Witness ==
    /\ pc = "error"
    /\ messages # <<>>
    /\ HasBadLiteral(LastLine)
    /\ out = <<>>

---------------------------------------------------------------------------
(* Plural indices.                                                         *)

\* the text between "msgstr[" and the first "]" of a line that has both
BracketText(raw_line) ==
    LET line == RStripNewline(raw_line)
    IN  SubSeq(line, 8, Find(line, 93))

\* the text is a decimal numeral of a non-negative integer
IsIndexNumeral(text) ==
    /\ text # <<>>
    /\ \A i \in 1..Len(text) : text[i] \in 48..57

\* C4 (as stated): a msgstr[n] line whose bracketed index is not a valid
\* non-negative integer aborts the run and stores nothing, so every index
\* present in a translations mapping is >= 0.
C4_AsStated ==
    /\ (/\ consumed # <<>>
        /\ StartsWith(LastLine, KwMsgstrIndexed)
        /\ Find(LastLine, 93) >= 0
        /\ ~IsIndexNumeral(BracketText(LastLine)))
       => pc = "error"
    /\ \A k \in DictKeys(msgstr) : k >= 0
    /\ \A i \in 1..Len(messages) : \A k \in DictKeys(messages[i].msgstr) : k >= 0

RECURSIVE TotalLen(_)
TotalLen(parts) == IF parts = <<>> THEN 0 ELSE Len(Head(parts)) + TotalLen(Tail(parts))

\* the largest index present in a translations mapping, 0 if none
LargestIndex(translations) ==
    IF Len(translations) = 0 THEN 0
    ELSE CHOOSE m \in {translations[i][1] : i \in 1..Len(translations)} :
             \A i \in 1..Len(translations) : translations[i][1] <= m

\* C5 (as stated): for a non-fuzzy record with id_plural the value is the
\* NUL-joined list of translations[i], i = 0..max_index, "" for an absent
\* index: max_index + 1 segments and max_index separators; its key-base is
\* id + NUL + id_plural.  Without id_plural the value is translations[0] if
\* present, else "", whatever other indices are present.
C5_AsStated ==
    (pc = "assemble" /\ idx >= 1 /\ ~CarriesFuzzy(messages[idx])) =>
        LET rec == messages[idx]
            m == LargestIndex(rec.msgstr)
            segments == [i \in 1..(m + 1) |-> DictGet(rec.msgstr, i - 1, <<>>)]
        IN  IF rec.msgid_plural # None
            THEN /\ value = Some(Join(segments, <<0>>))
                 /\ Len(segments) = m + 1
                 /\ Len(value[1]) = TotalLen(segments) + m
                 /\ \E n \in 0..Len(key[1]) :
                        DropFirst(key[1], n) = rec.msgid \o <<0>> \o rec.msgid_plural[1]
            ELSE value = Some(DictGet(rec.msgstr, 0, <<>>))

---------------------------------------------------------------------------
\* C6: for every non-fuzzy record the final key is context + "\x04" +
\* key-base when the context is present and non-empty, and key-base alone when
\* the context is absent or empty; msgctxt "menu", msgid "Open", msgstr
\* "Ouvrir" give the key "menu" + "\x04" + "Open" with the value "Ouvrir".
C6_ContextKey ==
    (pc = "assemble" /\ idx >= 1 /\ ~CarriesFuzzy(messages[idx])) =>
        LET rec == messages[idx]
        IN  /\ (rec.msgctxt # None /\ Len(rec.msgctxt[1]) > 0)
                   => key = Some(rec.msgctxt[1] \o <<4>> \o KeyBaseOf(rec))
            /\ (rec.msgctxt = None \/ rec.msgctxt = Some(<<>>))
                   => key = Some(KeyBaseOf(rec))
            /\ \E i \in 1..Len(catalog) : catalog[i] = <<key[1], value[1]>>
            /\ (/\ rec.msgctxt = Some(<<109, 101, 110, 117>>)
                /\ rec.msgid = <<79, 112, 101, 110>>
                /\ rec.msgid_plural = None
                /\ rec.msgstr = <<<<0, <<79, 117, 118, 114, 105, 114>>>>>>)
                   => /\ key = Some(<<109, 101, 110, 117, 4, 79, 112, 101, 110>>)
                      /\ value = Some(<<79, 117, 118, 114, 105, 114>>)

\* The record just assembled has the empty context: its key is its msgid.
C6_Witness ==
    /\ pc = "assemble"
    /\ idx >= 1
    /\ ~CarriesFuzzy(messages[idx])
    /\ messages[idx].msgctxt = Some(<<>>)
    /\ key = Some(<<79, 112, 101, 110>>)
    /\ value = Some(<<79, 117, 118, 114, 105, 114>>)

---------------------------------------------------------------------------
(* Continuation lines.                                                     *)

\* a line whose trimmed form starts with a double quote
IsContinuation(raw_line) ==
    \E i \in 1..Len(raw_line) :
        raw_line[i] = 34 /\ \A j \in 1..(i - 1) : IsSpace(raw_line[j])

\* the decoded text of a well-formed quoted literal
Decoded(text) == unescape(SubSeq(Strip(text), 2, Len(Strip(text)) - 1))

\* the fields of the record in progress other than field f are unchanged
OnlyChanges(f) ==
    /\ f # "msgctxt" => msgctxt' = msgctxt
    /\ f # "msgid" => msgid' = msgid
    /\ f # "msgid_plural" => msgid_plural' = msgid_plural
    /\ f # "msgstr" => msgstr' = msgstr
    /\ flags' = flags
    /\ messages' = messages

\* C7: continuation lines append, directives replace.  A directive sets its
\* field to its decoded text; each well-formed continuation line that follows
\* appends its decoded text to exactly the active field, with no separator
\* (after msgstr[n]: to translations[n] and to no other index), and leaves
\* every other field and the active target as they were; comment and flag
\* lines change no field and not the active target.  msgid "" followed by
\* "Part1" and "Part2" gives the id "Part1Part2".
C7_ContinuationAppends ==
    [][(ReadsLine /\ pc' = "parse") =>
        LET raw_line == consumed'[Len(consumed')]
            line == RStripNewline(raw_line)
            text == Decoded(line)
        IN  /\ (IsContinuation(raw_line) /\ active # NoActive) =>
                /\ active' = active
                /\ OnlyChanges(active.kind)
                /\ active.kind = "msgctxt" => msgctxt' = Some(msgctxt[1] \o text)
                /\ active.kind = "msgid" => msgid' = Some(msgid[1] \o text)
                /\ active.kind = "msgid_plural" =>
                       msgid_plural' = Some(msgid_plural[1] \o text)
                /\ active.kind = "msgstr" =>
                       /\ Len(msgstr') = Len(msgstr)
                       /\ \A i \in 1..Len(msgstr) :
                              IF msgstr[i][1] = active.index[1]
                              THEN msgstr'[i] = <<msgstr[i][1], msgstr[i][2] \o text>>
                              ELSE msgstr'[i] = msgstr[i]
            /\ StartsWith(line, KwMsgctxt) =>
                /\ msgctxt' = Some(Decoded(DropFirst(line, 7)))
                /\ OnlyChanges("msgctxt")
            /\ (StartsWith(line, KwMsgid) /\ ~StartsWith(line, KwMsgidPlural)) =>
                /\ msgid' = Some(Decoded(DropFirst(line, 5)))
                /\ OnlyChanges("msgid")
            /\ StartsWith(line, KwMsgidPlural) =>
                /\ msgid_plural' = Some(Decoded(DropFirst(line, 12)))
                /\ OnlyChanges("msgid_plural")
            /\ StartsWith(line, KwMsgstr) =>
                /\ OnlyChanges("msgstr")
                /\ active'.kind = "msgstr"
                /\ DictGet(msgstr', active'.index[1], <<>>)
                       = Decoded(DropFirst(line, Find(line, 34)))
            /\ StartsWith(line, KwComment) =>
                /\ active' = active
                /\ UNCHANGED <<msgctxt, msgid, msgid_plural, msgstr, messages>>
            /\ (/\ Len(consumed') >= 3
                /\ StartsWith(consumed'[Len(consumed') - 2],
                              <<109, 115, 103, 105, 100, 32, 34, 34>>)
                /\ consumed'[Len(consumed') - 1] = <<34, 80, 97, 114, 116, 49, 34, 10>>
                /\ Decoded(line) = <<80, 97, 114, 116, 50>>) =>
                msgid' = Some(<<80, 97, 114, 116, 49, 80, 97, 114, 116, 50>>)
       ]_vars

\* msgid "", a flag line, then "Part1" and "Part2" were read: the id is
\* "Part1Part2" and the flag line did not take the continuation away.
C7_Witness ==
    /\ pc = "parse"
    /\ Len(consumed) = 4
    /\ StartsWith(consumed[1], KwMsgid)
    /\ StartsWith(consumed[2], KwFlags)
    /\ IsContinuation(consumed[3])
    /\ IsContinuation(consumed[4])
    /\ msgid = Some(<<80, 97, 114, 116, 49, 80, 97, 114, 116, 50>>)
    /\ flags # {}
    /\ active = Active("msgid", None)

---------------------------------------------------------------------------
(* The byte stream as a reader of the MO format takes it apart.            *)

\* the unsigned 32-bit little-endian field at byte offset pos
U32(bytes, pos) ==
    bytes[pos + 1] + 256 * bytes[pos + 2] + 65536 * bytes[pos + 3]
        + 16777216 * bytes[pos + 4]

\* the header's count and table offsets
HeaderN == U32(out, 8)

HeaderOriginals == U32(out, 12)

HeaderTranslations == U32(out, 16)

\* entry i (from 0) of the table at offset table: its length and its offset
EntryLen(table, i) == U32(out, table + 8 * i)

EntryOff(table, i) == U32(out, table + 8 * i + 4)

\* the bytes entry i of the table points at
EntryBytes(table, i) ==
    SubSeq(out, EntryOff(table, i) + 1, EntryOff(table, i) + EntryLen(table, i))

\* the byte that follows them
EntryEnd(table, i) == out[EntryOff(table, i) + EntryLen(table, i) + 1]

\* the number of bytes UTF-8 gives a code point
Utf8Len(c) == IF c < 128 THEN 1 ELSE IF c < 2048 THEN 2 ELSE IF c < 65536 THEN 3 ELSE 4

RECURSIVE Utf8Length(_)
Utf8Length(s) == IF s = <<>> THEN 0 ELSE Utf8Len(Head(s)) + Utf8Length(Tail(s))

\* entry i of both tables is the catalog's pair j
EntryIs(i, j) ==
    /\ EntryLen(HeaderOriginals, i) = Utf8Length(catalog[j][1])
    /\ EntryBytes(HeaderOriginals, i) = encode(catalog[j][1])
    /\ EntryLen(HeaderTranslations, i) = Utf8Length(catalog[j][2])
    /\ EntryBytes(HeaderTranslations, i) = encode(catalog[j][2])

\* a < b byte by byte, a proper prefix being the smaller
BytewiseLess(a, b) ==
    \E k \in 1..Len(b) :
        /\ k - 1 <= Len(a)
        /\ \A j \in 1..(k - 1) : a[j] = b[j]
        /\ k = Len(a) + 1 \/ a[k] < b[k]

\* C8: for a catalog of size N the header gives originals_offset = 28 and
\* translations_offset = 28 + N*8; for every entry of both tables the length
\* is the UTF-8 byte length of its string, the bytes at offset .. offset +
\* length are the string's UTF-8 bytes, and a NUL byte follows them (so the
\* offset of an empty string points at its terminator).
C8_TablesPointAtStrings ==
    pc = "done" =>
        /\ HeaderN = Len(catalog)
        /\ HeaderOriginals = 28
        /\ HeaderTranslations = 28 + HeaderN * 8
        /\ \A i \in 0..(HeaderN - 1) :
              /\ \E j \in 1..Len(catalog) : EntryIs(i, j)
              /\ EntryEnd(HeaderOriginals, i) = 0
              /\ EntryEnd(HeaderTranslations, i) = 0
        /\ \A j \in 1..Len(catalog) : \E i \in 0..(HeaderN - 1) : EntryIs(i, j)

\* At least three entries were written, one with a key of several bytes a
\* character, one with an empty string and one with a translation of several
\* bytes a character.
C8_Witness ==
    /\ pc = "done"
    /\ Len(catalog) >= 3
    /\ \E j \in 1..Len(catalog) : Utf8Length(catalog[j][1]) > Len(catalog[j][1])
    /\ \E j \in 1..Len(catalog) : Utf8Length(catalog[j][2]) > Len(catalog[j][2])
    /\ \E j \in 1..Len(catalog) : catalog[j][1] # <<>> /\ catalog[j][2] = <<>>

\* C9: the originals table is strictly increasing under byte-wise comparison
\* of the UTF-8 keys (the order by code point, which sorted() uses, is that
\* order for every pair of keys); entry i of the translations table is the
\* value of the key in entry i of the originals table; in the pool every key
\* string precedes every value string.
C9_SortedByBytes ==
    pc = "done" =>
        /\ \A i \in 0..(HeaderN - 2) :
              BytewiseLess(EntryBytes(HeaderOriginals, i),
                           EntryBytes(HeaderOriginals, i + 1))
        /\ \A i \in 0..(HeaderN - 1) :
              \E j \in 1..Len(catalog) :
                  /\ EntryBytes(HeaderOriginals, i) = encode(catalog[j][1])
                  /\ EntryBytes(HeaderTranslations, i) = encode(catalog[j][2])
        /\ \A i, j \in 0..(HeaderN - 1) :
              EntryOff(HeaderOriginals, i) + EntryLen(HeaderOriginals, i)
                  < EntryOff(HeaderTranslations, j)
        /\ \A i, j \in 1..Len(catalog) :
              BytewiseLess(catalog[i][1], catalog[j][1])
                  <=> BytewiseLess(encode(catalog[i][1]), encode(catalog[j][1]))

\* Three keys were written in an order other than the order they entered the
\* catalog in, among them keys of two and of three or four bytes a character.
C9_Witness ==
    /\ pc = "done"
    /\ Len(catalog) >= 3
    /\ \E i, j \in 1..Len(catalog) :
          /\ i < j
          /\ catalog[j][1] # <<>>
          /\ BytewiseLess(encode(catalog[j][1]), encode(catalog[i][1]))
    /\ \E j \in 1..Len(catalog) : Utf8Length(catalog[j][1]) = 2
    /\ \E j \in 1..Len(catalog) : Utf8Length(catalog[j][1]) >= 3

\* C10: the header's N is the number of distinct final keys among the
\* non-fuzzy records, plus one if none of them is ""; N >= 1, and the first
\* entry of the originals table is the empty key, of length 0.  The file
\* msgid "Hello" / msgstr "Bonjour" gives the catalog {"": "", "Hello":
\* "Bonjour"}, N = 2, and "" before "Hello".
C10_CountAndFirstEntry ==
    pc = "done" =>
        LET keys == {FinalKeyOf(messages[i]) :
                        i \in {n \in 1..Len(messages) : ~CarriesFuzzy(messages[n])}}
            hello == <<72, 101, 108, 108, 111>>
            bonjour == <<66, 111, 110, 106, 111, 117, 114>>
        IN  /\ HeaderN = Cardinality(keys) + (IF <<>> \in keys THEN 0 ELSE 1)
            /\ HeaderN >= 1
            /\ EntryLen(HeaderOriginals, 0) = 0
            /\ EntryBytes(HeaderOriginals, 0) = <<>>
            /\ (/\ Len(consumed) = 2
                /\ RStripNewline(consumed[1]) = KwMsgid \o <<32, 34>> \o hello \o <<34>>
                /\ RStripNewline(consumed[2]) = KwMsgstr \o <<32, 34>> \o bonjour \o <<34>>)
               => /\ {catalog[i] : i \in 1..Len(catalog)}
                         = {<<<<>>, <<>>>>, <<hello, bonjour>>}
                  /\ Len(catalog) = 2
                  /\ HeaderN = 2
                  /\ EntryBytes(HeaderOriginals, 1) = hello
                  /\ EntryBytes(HeaderTranslations, 0) = <<>>
                  /\ EntryBytes(HeaderTranslations, 1) = bonjour

\* The file was msgid "Hello" / msgstr "Bonjour": two entries were written.
C10_Witness ==
    /\ pc = "done"
    /\ Len(consumed) = 2
    /\ StartsWith(consumed[1], KwMsgid \o <<32, 34, 72, 101, 108, 108, 111, 34>>)
    /\ StartsWith(consumed[2], KwMsgstr \o <<32, 34, 66, 111, 110, 106, 111, 117, 114, 34>>)
    /\ HeaderN = 2

---------------------------------------------------------------------------
\* the line a step of the line loop reads
NewLine == consumed'[Len(consumed')]

\* a step that runs flush: a blank line is read, or the file is exhausted
FlushStep ==
    \/ ReadsLine /\ IsBlankLine(NewLine)
    \/ pc = "parse" /\ pc' = "assemble"

\* a msgid directive (a msgid_plural directive is not one)
IsIdLine(raw_line) ==
    StartsWith(raw_line, KwMsgid) /\ ~StartsWith(raw_line, KwMsgidPlural)

\* line i lies in a block that holds a line starting with prefix
BlockHas(lines, i, prefix) ==
    \E j \in 1..Len(lines) : SameBlock(lines, i, j) /\ StartsWith(lines[j], prefix)

\* the first msgid directive of every block that has one
RecordOpeners(lines) ==
    {i \in 1..Len(lines) :
        /\ IsIdLine(lines[i])
        /\ \A j \in 1..(i - 1) : SameBlock(lines, j, i) => ~IsIdLine(lines[j])}

\* the k-th smallest member of S
Nth(S, k) == CHOOSE i \in S : Cardinality({j \in S : j <= i}) = k

\* C11: flush semantics.  On every blank or whitespace-only line and once at
\* the end of input, nothing is appended when msgid is unset and exactly one
\* record (msgctxt, msgid, msgid_plural, msgstr, flags) is appended when it
\* is set; either way msgctxt, msgid, msgid_plural, msgstr, flags and the
\* active target are reset.  Consequently, once the input is exhausted, the
\* records are one per block that has a msgid directive, in order, the last
\* block included though no blank line follows it, and each record carries a
\* fuzzy flag, a context, a plural id, a translation exactly when its own
\* block has a line that gives one: nothing leaks from a block without msgid.
C11_FlushSemantics ==
    /\ [][FlushStep =>
            /\ messages' =
                  IF msgid = None THEN messages
                  ELSE Append(messages,
                              [msgctxt |-> msgctxt, msgid |-> msgid[1],
                               msgid_plural |-> msgid_plural,
                               msgstr |-> msgstr, flags |-> flags])
            /\ msgctxt' = None
            /\ msgid' = None
            /\ msgid_plural' = None
            /\ msgstr' = <<>>
            /\ flags' = {}
            /\ active' = NoActive]_vars
    /\ [](pc \in {"assemble", "write_mo", "done"} =>
            /\ Len(messages) = Cardinality(RecordOpeners(consumed))
            /\ \A k \in 1..Len(messages) :
                  LET i == Nth(RecordOpeners(consumed), k)
                  IN  /\ CarriesFuzzy(messages[k]) <=> InFuzzyBlock(consumed, i)
                      /\ messages[k].flags # {} <=> BlockHas(consumed, i, KwFlags)
                      /\ messages[k].msgctxt # None
                            <=> BlockHas(consumed, i, KwMsgctxt)
                      /\ messages[k].msgid_plural # None
                            <=> BlockHas(consumed, i, KwMsgidPlural)
                      /\ messages[k].msgstr # <<>>
                            <=> BlockHas(consumed, i, KwMsgstr))

\* C11 witness: a block that is only a fuzzy flag line, closed by a line of
\* blanks, then a block with a msgid that ends the file; its record, emitted
\* by the flush at the end of input, has no flag.
C11_Witness ==
    /\ pc = "assemble"
    /\ consumed # <<>>
    /\ ~IsBlankLine(LastLine)
    /\ \E i, j \in 1..Len(consumed) :
          /\ i < j
          /\ IsFuzzyFlagLine(consumed[i])
          /\ ~BlockHas(consumed, i, KwMsgid)
          /\ IsBlankLine(consumed[j])
          /\ consumed[j] # LnBlank
    /\ Len(messages) = 1
    /\ messages[1].flags = {}
    /\ messages[1].msgstr # <<>>
    /\ SameBlock(consumed, Nth(RecordOpeners(consumed), 1), Len(consumed))

---------------------------------------------------------------------------
\* form i of a translations mapping, "" when the index is absent
FormAt(translations, i) ==
    IF \E p \in 1..Len(translations) : translations[p][1] = i
    THEN translations[CHOOSE p \in 1..Len(translations) : translations[p][1] = i][2]
    ELSE <<>>

RECURSIVE FormsJoined(_, _, _)
\* forms i..m separated by NUL
FormsJoined(translations, i, m) ==
    IF i > m THEN <<>>
    ELSE IF i = m THEN FormAt(translations, i)
    ELSE FormAt(translations, i) \o <<0>> \o FormsJoined(translations, i + 1, m)

\* the value the catalog format gives a record
ValueOf(rec) ==
    IF rec.msgid_plural = None THEN FormAt(rec.msgstr, 0)
    ELSE FormsJoined(rec.msgstr, 0, LargestIndex(rec.msgstr))

\* C12: last write wins.  In the returned catalog every key other than a
\* defaulted "" was produced by a non-fuzzy record, and its value is the one
\* of the last non-fuzzy record, in input order, whose final key it is; the
\* key of every non-fuzzy record is present, so that a later fuzzy record
\* with the same key neither overwrites nor removes the entry.
C12_LastWriteWins ==
    Returned =>
        /\ \A p \in 1..Len(catalog) :
              LET k == catalog[p][1]
              IN  /\ Producers(k) = {} => k = <<>> /\ catalog[p][2] = <<>>
                  /\ Producers(k) # {} =>
                        catalog[p][2] = ValueOf(messages[Last(Producers(k))])
        /\ \A i \in 1..Len(messages) :
              ~CarriesFuzzy(messages[i]) =>
                  \E p \in 1..Len(catalog) : catalog[p][1] = FinalKeyOf(messages[i])

\* C12 witness: two non-fuzzy records with the same non-empty key and
\* different values; the catalog holds the value of the second.
C12_Witness ==
    /\ pc = "done"
    /\ \E i, j \in 1..Len(messages) :
          /\ i < j
          /\ FinalKeyOf(messages[i]) # <<>>
          /\ i \in Producers(FinalKeyOf(messages[i]))
          /\ j \in Producers(FinalKeyOf(messages[i]))
          /\ ValueOf(messages[i]) # ValueOf(messages[j])
          /\ ValueAt(FinalKeyOf(messages[i])) = ValueOf(messages[j])

---------------------------------------------------------------------------
\* the flags a "#," line names: its comma-separated pieces, trimmed, the
\* empty ones left out
NamedFlags(raw_line) ==
    LET pieces == Split(DropFirst(RStripNewline(raw_line), 2), 44)
    IN  {Strip(pieces[i]) : i \in 1..Len(pieces)} \ {<<>>}

\* the indices a translations mapping has
IndicesOf(translations) == {translations[p][1] : p \in 1..Len(translations)}

\* how many of the fields of the record in progress a step changes
FieldsChanged ==
    Cardinality({f \in {"msgctxt", "msgid", "msgid_plural", "msgstr", "flags"} :
        \/ f = "msgctxt" /\ msgctxt' # msgctxt
        \/ f = "msgid" /\ msgid' # msgid
        \/ f = "msgid_plural" /\ msgid_plural' # msgid_plural
        \/ f = "msgstr" /\ msgstr' # msgstr
        \/ f = "flags" /\ flags' # flags})

\* C13: per-line dispatch is first-match-wins.  A "#," line only adds the
\* flags it names and changes neither the active target nor any other field;
\* any other "#" line changes nothing; a well-formed msgid_plural line sets
\* msgid_plural and leaves msgid as it was; a well-formed "msgstr[n]" line
\* stores its text at index n and at no other index, so never at index 0
\* unless n is 0.  One rule fires per line: a non-blank line changes at most
\* one field and appends no record.
C13_FirstMatchWins ==
    [][ReadsLine =>
          LET line == RStripNewline(NewLine)
          IN  /\ StartsWith(line, KwFlags) =>
                    /\ pc' = "parse"
                    /\ flags' = flags \cup NamedFlags(NewLine)
                    /\ UNCHANGED <<msgctxt, msgid, msgid_plural, msgstr, active,
                                   messages>>
              /\ StartsWith(line, KwComment) /\ ~StartsWith(line, KwFlags) =>
                    /\ pc' = "parse"
                    /\ UNCHANGED <<msgctxt, msgid, msgid_plural, msgstr, flags,
                                   active, messages>>
              /\ StartsWith(line, KwMsgidPlural) /\ ~HasBadLiteral(NewLine) =>
                    /\ pc' = "parse"
                    /\ msgid_plural' = Some(Decoded(DropFirst(line, 12)))
                    /\ msgid' = msgid
                    /\ active' = Active("msgid_plural", None)
                    /\ OnlyChanges("msgid_plural")
              /\ \A n \in 0..9 :
                    /\ StartsWith(line, KwMsgstrIndexed)
                    /\ BracketText(NewLine) = <<48 + n>>
                    /\ ~HasBadLiteral(NewLine)
                    => /\ pc' = "parse"
                       /\ IndicesOf(msgstr') = IndicesOf(msgstr) \cup {n}
                       /\ FormAt(msgstr', n) = Decoded(LiteralOf(NewLine)[1])
                       /\ \A i \in IndicesOf(msgstr) \ {n} :
                             FormAt(msgstr', i) = FormAt(msgstr, i)
                       /\ active' = Active("msgstr", Some(n))
                       /\ OnlyChanges("msgstr")
              /\ ~IsBlankLine(NewLine) => FieldsChanged <= 1 /\ messages' = messages
      ]_vars

\* C13 witness: after msgid "a", a msgid_plural line, a "#," line and a
\* msgstr[1] line, msgid is still "a", the flags are set, and the text is
\* stored at index 1 alone.
C13_Witness ==
    /\ pc = "parse"
    /\ consumed # <<>>
    /\ StartsWith(LastLine, KwMsgstrIndexed)
    /\ \E i \in 1..Len(consumed) : StartsWith(consumed[i], KwFlags)
    /\ msgid = Some(<<97>>)
    /\ msgid_plural # None
    /\ flags # {}
    /\ IndicesOf(msgstr) = {1}
    /\ active = Active("msgstr", Some(1))

---------------------------------------------------------------------------
(* The escape forms, as the format of a quoted literal defines them.       *)

\* how many of the characters of text from position i on are octal digits,
\* counting three at most
OctalRun(text, i) ==
    CHOOSE n \in 0..3 :
        /\ \A j \in 0..(n - 1) : i + j <= Len(text) /\ text[i + j] \in 48..55
        /\ n = 3 \/ i + n > Len(text) \/ text[i + n] \notin 48..55

IsHex(c) == c \in 48..57 \/ c \in 65..70 \/ c \in 97..102

HexOf(c) == IF c \in 48..57 THEN c - 48 ELSE IF c \in 97..102 THEN c - 87 ELSE c - 55

\* the length of the escape that starts at position i of text, 0 when the
\* character there opens none
FormLen(text, i) ==
    IF text[i] # 92 \/ i = Len(text) THEN 0
    ELSE IF text[i + 1] \in {110, 116, 114, 92, 34} THEN 2
    ELSE IF text[i + 1] \in 48..55 THEN 1 + OctalRun(text, i + 1)
    ELSE IF /\ text[i + 1] = 120
            /\ i + 3 <= Len(text)
            /\ IsHex(text[i + 2])
            /\ IsHex(text[i + 3]) THEN 4
    ELSE 0

\* the one character the escape of length n at position i stands for
FormChar(text, i, n) ==
    IF text[i + 1] = 110 THEN 10
    ELSE IF text[i + 1] = 116 THEN 9
    ELSE IF text[i + 1] = 114 THEN 13
    ELSE IF text[i + 1] \in {92, 34} THEN text[i + 1]
    ELSE IF text[i + 1] = 120 THEN 16 * HexOf(text[i + 2]) + HexOf(text[i + 3])
    ELSE IF n = 2 THEN text[i + 1] - 48
    ELSE IF n = 3 THEN 8 * (text[i + 1] - 48) + (text[i + 2] - 48)
    ELSE 64 * (text[i + 1] - 48) + 8 * (text[i + 2] - 48) + (text[i + 3] - 48)

\* The positions where a left-to-right pass finds itself: position 1, and
\* the position just past the escape, or the single character, found at an
\* earlier such position.
PassPositions(text) ==
    LET at[i \in 1..Len(text)] ==
            \/ i = 1
            \/ \E j \in 1..(i - 1) :
                  /\ at[j]
                  /\ i = j + (IF FormLen(text, j) = 0 THEN 1 ELSE FormLen(text, j))
    IN  {i \in 1..Len(text) : at[i]}

\* the characters between the quotes of the line last read, a msgid line of
\* SpecEscape
LastLiteral == SubSeq(LastLine, 8, Len(LastLine) - 2)

\* C14: the escape decoder is a single left-to-right non-overlapping pass.
\* The decoded text has one character per position of the pass: the
\* character an escape recognised there stands for (newline, tab, carriage
\* return, backslash, quote, the value of one to three octal digits or of two
\* hexadecimal digits), else the character itself, so that every backslash
\* sequence of no recognised form stays as it is.  In particular backslash,
\* backslash, n gives backslash and n; backslash and four digits 7 gives
\* chr(511) and the digit 7; backslash x 7, backslash 8, backslash q and a
\* trailing backslash are unchanged; and no literal raises an error.
C14_SinglePass ==
    consumed # <<>> =>
        /\ pc = "parse"
        /\ msgid # None
        /\ LET text == LastLiteral
               decoded == msgid[1]
               S == PassPositions(text)
           IN  /\ Len(decoded) = Cardinality(S)
               /\ \A k \in 1..Len(decoded) :
                     LET i == Nth(S, k)
                         n == FormLen(text, i)
                     IN  decoded[k] = IF n = 0 THEN text[i] ELSE FormChar(text, i, n)
               /\ text = <<92, 92, 110>> => decoded = <<92, 110>>
               /\ text = <<92, 55, 55, 55, 55>> => decoded = <<511, 55>>
               /\ text \in {<<92, 120, 55>>, <<92, 56>>, <<92, 113>>, <<92>>,
                            <<120, 92, 120, 55, 113>>}
                     => decoded = text

\* C14 witness: the literal backslash, backslash, n was decoded to the two
\* characters backslash and n.
C14_Witness ==
    /\ consumed # <<>>
    /\ LastLiteral = <<92, 92, 110>>
    /\ msgid = Some(<<92, 110>>)

---------------------------------------------------------------------------
\* C15: a stray continuation line is checked before it is ignored.  With no
\* active target, a continuation line whose literal is well formed is
\* ignored: every field, the flags, the active target and the record list
\* stay as they were and parsing goes on; one whose literal is malformed
\* (it does not both start and end with a double quote) raises the error
\* all the same, and nothing is changed.
C15_StrayContinuation ==
    [][ReadsLine /\ active = NoActive /\ IsContinuation(NewLine) =>
          /\ UNCHANGED <<msgctxt, msgid, msgid_plural, msgstr, flags, active,
                         messages>>
          /\ pc' = IF HasBadLiteral(NewLine) THEN "error" ELSE "parse"]_vars

\* C15 witness: a record was flushed by a blank line, a well-formed
\* continuation line was then passed over, and the malformed one after it
\* has stopped the run with no field set.
C15_Witness ==
    /\ pc = "error"
    /\ Len(consumed) = 4
    /\ IsBlankLine(consumed[2])
    /\ IsContinuation(consumed[3])
    /\ ~HasBadLiteral(consumed[3])
    /\ IsContinuation(consumed[4])
    /\ HasBadLiteral(consumed[4])
    /\ Len(messages) = 1
    /\ active = NoActive
    /\ msgid = None

---------------------------------------------------------------------------
\* C16: between lines, an active target names a field that is set: with
\* msgctxt active msgctxt is not None, likewise msgid and msgid_plural, and
\* with (msgstr, i) active i is an index of msgstr; and the active target is
\* none right after every flush, the one on a blank line and the one at the
\* end of input.  So a continuation line always finds the text it appends to.
C16_ActiveTargetIsSet ==
    /\ pc \in {"parse", "error"} =>
          /\ active.kind \in {"None", "msgctxt", "msgid", "msgid_plural", "msgstr"}
          /\ active.kind = "msgctxt" => msgctxt # None
          /\ active.kind = "msgid" => msgid # None
          /\ active.kind = "msgid_plural" => msgid_plural # None
          /\ active.kind = "msgstr" =>
                active.index # None /\ active.index[1] \in IndicesOf(msgstr)
    /\ pc = "parse" /\ consumed # <<>> /\ IsBlankLine(LastLine) => active = NoActive
    /\ pc \in {"assemble", "write_mo", "done"} => active = NoActive

\* C16 witness: after a flush that emitted a record, a msgstr[1] line and a
\* continuation line were read; the active target is (msgstr, 1) and index 1
\* holds the text of both.
C16_Witness ==
    /\ pc = "parse"
    /\ Len(messages) = 1
    /\ IsContinuation(LastLine)
    /\ active = Active("msgstr", Some(1))
    /\ 1 \in IndicesOf(msgstr)
    /\ Len(FormAt(msgstr, 1)) > Len(Decoded(LastLine))

---------------------------------------------------------------------------
\* the number of maximal runs of non-blank lines
Runs(lines) ==
    Cardinality({i \in 1..Len(lines) :
        ~IsBlankLine(lines[i]) /\ (i = 1 \/ IsBlankLine(lines[i - 1]))})

\* the last msgid directive of the block of line i
LastIdLine(lines, i) ==
    CHOOSE j \in 1..Len(lines) :
        /\ SameBlock(lines, i, j)
        /\ IsIdLine(lines[j])
        /\ \A k \in (j + 1)..Len(lines) : SameBlock(lines, i, k) => ~IsIdLine(lines[k])

RECURSIVE ContinuedText(_, _)
\* the decoded texts of the continuation lines that follow a directive, from
\* line i up to the next directive or blank line, comment lines passed over
ContinuedText(lines, i) ==
    IF i > Len(lines) THEN <<>>
    ELSE IF StartsWith(lines[i], KwComment) THEN ContinuedText(lines, i + 1)
    ELSE IF IsContinuation(lines[i]) THEN Decoded(lines[i]) \o ContinuedText(lines, i + 1)
    ELSE <<>>

\* C17: one record per block, emitted only at flush.  The record list
\* changes only in a flush step, by one record appended; in particular a
\* msgid directive appends none, replaces msgid and leaves msgctxt,
\* msgid_plural, msgstr and flags as they were.  So the records never
\* outnumber the maximal runs of non-blank lines read, and once the input is
\* exhausted the msgid of each record is the text of the last msgid
\* directive of its run with the continuation lines that follow it, while
\* the record has flags and translations whenever a line of the run, before
\* or after that directive, gave some.
C17_OneRecordPerRun ==
    /\ [][messages' # messages =>
            /\ FlushStep
            /\ Len(messages') = Len(messages) + 1
            /\ SubSeq(messages', 1, Len(messages)) = messages]_vars
    /\ [][ReadsLine /\ IsIdLine(NewLine) /\ ~HasBadLiteral(NewLine) =>
            /\ pc' = "parse"
            /\ msgid' = Some(Decoded(LiteralOf(NewLine)[1]))
            /\ OnlyChanges("msgid")]_vars
    /\ [](Len(messages) <= Runs(consumed))
    /\ [](pc \in {"assemble", "write_mo", "done"} =>
            \A k \in 1..Len(messages) :
                LET i == LastIdLine(consumed, Nth(RecordOpeners(consumed), k))
                IN  /\ messages[k].msgid =
                          Decoded(LiteralOf(consumed[i])[1])
                              \o ContinuedText(consumed, i + 1)
                    /\ messages[k].flags # {} <=> BlockHas(consumed, i, KwFlags)
                    /\ messages[k].msgstr # <<>> <=> BlockHas(consumed, i, KwMsgstr))

\* C17 witness: a run of four lines, a msgid directive, a msgstr directive,
\* a second msgid directive and a continuation line, gave one record; its
\* msgid is the text of the second directive and of the continuation line,
\* and it has the translation given before that directive.
C17_Witness ==
    /\ pc = "assemble"
    /\ Len(consumed) = 4
    /\ IsIdLine(consumed[1])
    /\ StartsWith(consumed[2], KwMsgstr)
    /\ IsIdLine(consumed[3])
    /\ IsContinuation(consumed[4])
    /\ Len(messages) = 1
    /\ messages[1].msgid = Decoded(consumed[4])
    /\ messages[1].msgstr # <<>>

---------------------------------------------------------------------------
\* a line that is not blank and that no rule of the chain matches: it starts
\* with none of "#", msgctxt, msgid, msgstr, and its first non-blank
\* character is not a double quote
Unmatched(raw_line) ==
    /\ ~IsBlankLine(raw_line)
    /\ ~StartsWith(raw_line, KwComment)
    /\ ~StartsWith(raw_line, KwMsgctxt)
    /\ ~StartsWith(raw_line, KwMsgid)
    /\ ~StartsWith(raw_line, KwMsgstr)
    /\ ~IsContinuation(raw_line)

\* C18: an unrecognized non-blank line (a directive keyword preceded by
\* blanks, an unknown keyword) is silently skipped: no error is raised and
\* every field, the flags, the active target and the record list stay as
\* they were.
C18_UnmatchedSkipped ==
    [][ReadsLine /\ Unmatched(NewLine) =>
          /\ pc' = "parse"
          /\ UNCHANGED <<msgctxt, msgid, msgid_plural, msgstr, flags, active,
                         messages>>]_vars

\* C18 witness: with msgid "a" and a translation set and msgstr the active
\* target, the indented line   msgid "x"   was read; msgid is still "a" and
\* the active target is as it was.
C18_Witness ==
    /\ pc = "parse"
    /\ consumed # <<>>
    /\ LastLine = LnIndented
    /\ Unmatched(LastLine)
    /\ msgid = Some(<<97>>)
    /\ msgstr # <<>>
    /\ active.kind = "msgstr"

---------------------------------------------------------------------------
\* Entry k (from 0) of the two tables read as one list, the N originals
\* followed by the N translations: its offset and its length.
PoolOff(k) ==
    IF k < HeaderN THEN EntryOff(HeaderOriginals, k)
    ELSE EntryOff(HeaderTranslations, k - HeaderN)

PoolLen(k) ==
    IF k < HeaderN THEN EntryLen(HeaderOriginals, k)
    ELSE EntryLen(HeaderTranslations, k - HeaderN)

RECURSIVE PoolSize(_)
\* the bytes the strings of a catalog take in the pool, a terminator each
PoolSize(cat) ==
    IF cat = <<>> THEN 0
    ELSE Utf8Length(Head(cat)[1]) + 1 + Utf8Length(Head(cat)[2]) + 1
         + PoolSize(Tail(cat))

\* C19: the string pool is packed contiguously, with no gaps or overlaps.
\* In the bytes written, the first originals entry has offset 28 + 16 * N;
\* along the originals 0..N-1 followed by the translations 0..N-1 every
\* entry's offset is the previous entry's offset plus its length plus 1, so
\* the offsets increase strictly; the last string and its terminator end
\* the stream, whose length is 28 + 16 * N plus the sum over the 2N strings
\* of byte length + 1; the header's hash-table size and offset are both 0.
C19_PoolContiguous ==
    pc = "done" =>
        /\ HeaderN = Len(catalog)
        /\ PoolOff(0) = 28 + 16 * HeaderN
        /\ \A k \in 1..(2 * HeaderN - 1) :
              /\ PoolOff(k) = PoolOff(k - 1) + PoolLen(k - 1) + 1
              /\ PoolOff(k) > PoolOff(k - 1)
        /\ Len(out) = PoolOff(2 * HeaderN - 1) + PoolLen(2 * HeaderN - 1) + 1
        /\ Len(out) = 28 + 16 * HeaderN + PoolSize(catalog)
        /\ U32(out, 20) = 0
        /\ U32(out, 24) = 0

\* C19 witness: three entries were written, with a key of more bytes than
\* characters, an empty string and a translation that is not empty.
C19_Witness ==
    /\ pc = "done"
    /\ HeaderN = 3
    /\ \E p \in 1..Len(catalog) : Utf8Length(catalog[p][1]) > Len(catalog[p][1])
    /\ \E k \in 0..5 : PoolLen(k) = 0
    /\ \E k \in 3..5 : PoolLen(k) > 0
    /\ Len(out) > 28 + 16 * 3 + 6

=============================================================================
